---- MODULE Spec2Model ----
(***************************************************************************)
(* A model of snerge-bot's IRC bot (src/src/snerge/bot.py): the            *)
(* self-rescheduling quote timer (Bot.queue_quote), the message handler    *)
(* (Bot.event_message), the connection bootstrap (Bot.event_ready), the    *)
(* shutdown (Bot.stop) and the bounded quote retry (get_quote).            *)
(*                                                                         *)
(* The bot runs on one asyncio event loop.  A coroutine runs without       *)
(* interruption up to an await of network I/O; every such stretch is one   *)
(* action here.  Tasks made with loop.create_task wait in the FIFO `ready` *)
(* queue; timers made with loop.call_later fire once the clock has reached *)
(* their due time.                                                         *)
(***************************************************************************)
EXTENDS Integers, Sequences, FiniteSets, Bags, TLC

VARIABLES
    target,        \* Bot.target: TRUE when a Channel handle is stored, FALSE for None
    last_message,  \* Bot.last_message: whole seconds
    _timer,        \* Bot._timer: the TimerHandle the field refers to
    _stop,         \* Bot._stop
    orphans,       \* armed TimerHandles that Bot._timer no longer refers to (bag of due times)
    ready,         \* the loop's queue of tasks created with create_task, oldest first
    now,           \* loop.time(), in units of 1/Res second
    evReady,       \* the event_ready coroutines: how many were started, how many
                   \* wait at the join's await, how many at the announcement's
    stops,         \* the stop() coroutines: how many were started, how many wait
                   \* at the farewell's await, how many an exception ended
    closed,        \* Client.close() has been called
    gq,            \* the frame of a get_quote call
    owo,           \* the frame of an owo_magic call
    gh,            \* a guess_handler object
    last           \* the step taken last and what it did (history)

vars == <<target, last_message, _timer, _stop, orphans, ready, now, evReady,
          stops, closed, gq, owo, gh, last>>

---------------------------------------------------------------------------
(* Bounds of the model. *)

MaxNow == 5         \* the clock stops advancing at MaxNow / Res seconds
Res == 2            \* clock readings per second (loop.time() is fractional)
MaxReady == 2       \* event_ready dispatches (the first connection and reconnections)
MaxStops == 2       \* stop() calls
MaxLen == 4         \* longest statement the quote source returns

(* Program constants. *)

MaxAttempts == 100  \* get_quote: range(100)

(* Config, read through self.config: closed ranges of whole seconds. *)

startup_probe == <<4, 4>>
chat_active_probe == <<1, 2>>
auto_quote_time == <<2, 3>>
quote_length == <<1, 3>>

---------------------------------------------------------------------------
(* Text: a string is a sequence of one-character strings. *)

UpperAlpha == <<"A","B","C","D","E","F","G","H","I","J","K","L","M",
                "N","O","P","Q","R","S","T","U","V","W","X","Y","Z">>
LowerAlpha == <<"a","b","c","d","e","f","g","h","i","j","k","l","m",
                "n","o","p","q","r","s","t","u","v","w","x","y","z">>

LowerOf ==
    [c \in {UpperAlpha[i] : i \in 1..26} |->
        LowerAlpha[CHOOSE i \in 1..26 : UpperAlpha[i] = c]]

LowerChar(c) == IF c \in DOMAIN LowerOf THEN LowerOf[c] ELSE c

\* str.lower()
Lower(s) == [i \in 1..Len(s) |-> LowerChar(s[i])]

\* str.startswith(prefix)
StartsWith(s, prefix) ==
    /\ Len(s) >= Len(prefix)
    /\ SubSeq(s, 1, Len(prefix)) = prefix

SnergeCmd == <<"!","s","n","e","r","g","e">>

\* random.randint(a, b): both ends included
RandInt(range) == range[1]..range[2]

---------------------------------------------------------------------------
(* Inbound chat messages: the inputs of event_message. *)

Nick == <<"S","n">>                       \* self.nick
Names == { <<"S","n">>, <<"s","N">>, <<"m","o">> }
NoAuthor == [present |-> FALSE, name |-> <<>>, is_mod |-> FALSE]   \* message.author is None
Authors == {NoAuthor} \cup [present : {TRUE}, name : Names, is_mod : BOOLEAN]
Contents ==
    { SnergeCmd,
      SnergeCmd \o <<" ","f","o","o">>,
      <<"!","S","n","e","r","g","e">>,
      SnergeCmd \o <<"f","o","o">>,
      <<"h","i"," ">> \o SnergeCmd,
      <<"h","i">> }
Messages == [author : Authors, content : Contents]

\* one message of each kind the scheduler can tell apart: the bot's own, a
\* viewer's chat, a moderator's command
Viewer == [present |-> TRUE, name |-> <<"m","o">>, is_mod |-> FALSE]
Moderator == [present |-> TRUE, name |-> <<"m","o">>, is_mod |-> TRUE]
Myself == [present |-> TRUE, name |-> <<"s","N">>, is_mod |-> FALSE]
SchedMessages ==
    { [author |-> Myself, content |-> <<"h","i">>],
      [author |-> Viewer, content |-> <<"h","i">>],
      [author |-> Moderator, content |-> SnergeCmd] }

IsLoopbackCaseSensitive(msg) ==
    \/ ~msg.author.present
    \/ msg.author.name = Nick

\* event_message: the loop-back test
IsLoopback(msg) ==
    \/ ~msg.author.present
    \/ Lower(msg.author.name) = Lower(Nick)

\* event_message: last_message = int(self.loop.time())
IntTime(t) == t \div Res

MayCommandAnyChatter(isChatter, author) == isChatter

\* event_message: commands are for moderators the channel knows as chatters
MayCommand(isChatter, author) == isChatter /\ author.is_mod

IsCommandPrefix(content) == StartsWith(Lower(content), SnergeCmd)

\* event_message: the !snerge command
IsCommand(content) ==
    \/ Lower(content) = SnergeCmd
    \/ StartsWith(Lower(content), SnergeCmd \o <<" ">>)

SendQuoteSendsInverted(conn) == IF conn THEN 0 ELSE 1

\* send_quote: the number of target.send calls it makes
SendQuoteSends(conn) == IF conn THEN 1 ELSE 0

AfterSendRetries(ok, tasks) ==
    IF ok THEN tasks ELSE Append(tasks, [fn |-> "send_quote", by |-> "queue_quote"])

\* send_quote: the send is its last statement; whether it returns or raises,
\* nothing is queued after it
AfterSend(ok, tasks) == tasks

\* event_message: the number of send_quote calls it makes
MessagePosts(conn, isChatter, msg) ==
    IF conn /\ MayCommand(isChatter, msg.author) /\ IsCommand(msg.content)
    THEN 1 ELSE 0

---------------------------------------------------------------------------
(* The scheduler: queue_quote. *)

ReadyTask(by) == [fn |-> "queue_quote", by |-> by]
PostTask == [fn |-> "send_quote", by |-> "queue_quote"]

NoTimer == [st |-> "none", due |-> 0]

ArmedNever(due) == [st |-> "none", due |-> 0]

\* queue_quote: self._timer = self.loop.call_later(next_call, ...)
Armed(due) == [st |-> "armed", due |-> due]

TickNeverReturnsEarly(stop) == FALSE

\* queue_quote: the early return
TickReturnsEarly(stop) == stop

ChatInactiveAtThreshold(t, lm) == t - lm * Res >= chat_active_probe[1] * Res

\* queue_quote: loop.time() - last_message > chat_active_probe[0]
ChatInactive(t, lm) == t - lm * Res > chat_active_probe[1] * Res

\* queue_quote: the branch taken
Branch(stop, conn, t, lm) ==
    IF TickReturnsEarly(stop) THEN "stopped"
    ELSE IF ~conn THEN "startup"
    ELSE IF ChatInactive(t, lm) THEN "inactive"
    ELSE "quote"

\* queue_quote: the range next_call is drawn from
DelayRange(branch) ==
    CASE branch = "startup" -> startup_probe
      [] branch = "inactive" -> chat_active_probe
      [] branch = "quote" -> auto_quote_time

\* queue_quote: the send_quote tasks the branch creates
BranchPosts(branch) == IF branch = "quote" THEN <<PostTask>> ELSE <<>>

CancelNothing(h) == h

\* TimerHandle.cancel(): no effect on a handle that has fired or was cancelled
Cancel(h) == IF h.st = "armed" THEN [st |-> "cancelled", due |-> 0] ELSE h

FarewellSendsAlways(conn) == 1

\* stop: the number of farewell sends
FarewellSends(conn) == IF conn THEN 1 ELSE 0

QualifiesInclusive(len, min_length, max_length) ==
    min_length <= len /\ len <= max_length

\* get_quote: the acceptance test
Qualifies(len, min_length, max_length) == min_length < len /\ len < max_length

ArmedTimers == (IF _timer.st = "armed" THEN 1 ELSE 0) + BagCardinality(orphans)
TickTasks == Len(SelectSeq(ready, LAMBDA t : t.fn = "queue_quote"))
PostTasks == Len(SelectSeq(ready, LAMBDA t : t.fn = "send_quote"))

---------------------------------------------------------------------------
(* The state after Bot.__init__.  The monotonic clock starts anywhere. *)

NoResult == [kind |-> "none"]
Fallback == "I don't like coffee."
NoneReady == [started |-> 0, join |-> 0, announce |-> 0]
NoStops == [calls |-> 0, farewell |-> 0, raised |-> 0]
OwoIdle == [pc |-> "idle", arg |-> <<>>, result |-> <<>>]
Guessers == {"ann", "bob", "cy"}
GhIdle ==
    [pc |-> "idle", use_latest_reply |-> TRUE, guesses |-> <<>>,
     heard |-> [n \in Guessers |-> <<>>]]
GqIdle == [pc |-> "idle", min |-> 0, max |-> 0, calls |-> 0,
           rejected |-> {}, result |-> NoResult]

Init ==
    /\ target = FALSE
    /\ last_message = 0
    /\ _timer = NoTimer
    /\ _stop = FALSE
    /\ orphans = EmptyBag
    /\ ready = <<>>
    /\ now \in 0..MaxNow
    /\ evReady = NoneReady
    /\ stops = NoStops
    /\ closed = FALSE
    /\ gq = GqIdle
    /\ owo = OwoIdle
    /\ gh = GhIdle
    /\ last = [op |-> "init"]

\* the passage of time on the loop's clock
Advance ==
    /\ now < MaxNow
    /\ now' = now + 1
    /\ last' = [op |-> "time"]
    /\ UNCHANGED <<target, last_message, _timer, _stop, orphans, ready,
                   evReady, stops, closed, gq, owo, gh>>

---------------------------------------------------------------------------
(* event_ready: join until a handle is stored, announce, start the ticks. *)

LoopDoneAfterOneJoin(handle) == TRUE

\* event_ready: while not self.target
LoopDone(handle) == handle

GetChannelForgets(handle, found) == found

\* event_ready: self.target = self.get_channel(...): the handle once the
\* channel is joined, and from then on
GetChannel(handle, found) == handle \/ found

\* event_ready up to its first await: join_channels when there is no handle,
\* the announcement's send when there is one
EventReady ==
    /\ ~closed
    /\ evReady.started < MaxReady
    /\ evReady' = IF LoopDone(target)
                  THEN [evReady EXCEPT !.started = @ + 1, !.announce = @ + 1]
                  ELSE [evReady EXCEPT !.started = @ + 1, !.join = @ + 1]
    /\ last' = [op |-> "event_ready"]
    /\ UNCHANGED <<target, last_message, _timer, _stop, orphans, ready, now,
                   stops, closed, gq, owo, gh>>

\* join_channels returns; get_channel gives the handle once the channel is
\* joined, and gives it from then on
EventReadyJoined ==
    /\ evReady.join > 0
    /\ \E found \in BOOLEAN :
          /\ target' = GetChannel(target, found)
          /\ evReady' = IF LoopDone(target')
                        THEN [evReady EXCEPT !.join = @ - 1, !.announce = @ + 1]
                        ELSE evReady
    /\ last' = [op |-> "joined", left |-> LoopDone(target')]
    /\ UNCHANGED <<last_message, _timer, _stop, orphans, ready, now, stops,
                   closed, gq, owo, gh>>

\* the announcement's send returns, or raises
EventReadyAnnounced ==
    /\ evReady.announce > 0
    /\ \E ok \in BOOLEAN :
          /\ evReady' = [evReady EXCEPT !.announce = @ - 1]
          /\ ready' = IF ok THEN Append(ready, ReadyTask("event_ready")) ELSE ready
          /\ last' = [op |-> "announced", ok |-> ok]
    /\ UNCHANGED <<target, last_message, _timer, _stop, orphans, now, stops,
                   closed, gq, owo, gh>>

---------------------------------------------------------------------------
(* event_message, whole: it awaits nothing before send_quote's send. *)

EventMessageOf(msgs) ==
    /\ ~closed
    /\ \E msg \in msgs, isChatter \in BOOLEAN, ok \in BOOLEAN :
          IF IsLoopback(msg)
          THEN /\ isChatter /\ ok
               /\ last' = [op |-> "event_message", msg |-> msg, conn |-> target,
                           lm0 |-> last_message, posts |-> 0, sends |-> 0,
                           chatter |-> TRUE, ok |-> TRUE]
               /\ UNCHANGED last_message
          ELSE LET posts == MessagePosts(target, isChatter, msg) IN
               /\ target \/ isChatter
               /\ (posts = 0) => ok
               /\ last_message' = IntTime(now)
               /\ last' = [op |-> "event_message", msg |-> msg, conn |-> target,
                           lm0 |-> last_message, posts |-> posts,
                           sends |-> posts * SendQuoteSends(target),
                           chatter |-> isChatter, ok |-> ok]
    /\ UNCHANGED <<target, _timer, _stop, orphans, ready, now, evReady, stops,
                   closed, gq, owo, gh>>

---------------------------------------------------------------------------
(* queue_quote, whole: it awaits nothing. *)

QueueQuote ==
    /\ ready # <<>>
    /\ Head(ready).fn = "queue_quote"
    /\ LET b == Branch(_stop, target, now, last_message)
           by == Head(ready).by
       IN IF b = "stopped"
          THEN /\ ready' = Tail(ready)
               /\ last' = [op |-> "queue_quote", by |-> by, stopped |-> _stop,
                           conn |-> target, branch |-> b, delay |-> 0,
                           posts |-> 0, armed |-> FALSE]
               /\ UNCHANGED <<_timer, orphans>>
          ELSE \E next_call \in RandInt(DelayRange(b)) :
               /\ ready' = Tail(ready) \o BranchPosts(b)
               /\ _timer' = Armed(now + next_call * Res)
               /\ orphans' = IF _timer.st = "armed"
                             THEN orphans (+) SetToBag({_timer.due})
                             ELSE orphans
               /\ last' = [op |-> "queue_quote", by |-> by, stopped |-> _stop,
                           conn |-> target, branch |-> b, delay |-> next_call,
                           posts |-> Len(BranchPosts(b)), armed |-> TRUE]
    /\ UNCHANGED <<target, last_message, _stop, now, evReady, stops, closed, gq, owo, gh>>

\* a call_later timer fires: lambda: self.loop.create_task(self.queue_quote())
TimerFire ==
    /\ \/ /\ _timer.st = "armed"
          /\ now >= _timer.due
          /\ _timer' = [st |-> "fired", due |-> 0]
          /\ last' = [op |-> "timer", held |-> TRUE]
          /\ UNCHANGED orphans
       \/ /\ \E due \in BagToSet(orphans) :
                /\ now >= due
                /\ orphans' = orphans (-) SetToBag({due})
          /\ last' = [op |-> "timer", held |-> FALSE]
          /\ UNCHANGED _timer
    /\ ready' = Append(ready, ReadyTask("timer"))
    /\ UNCHANGED <<target, last_message, _stop, now, evReady, stops, closed, gq, owo, gh>>

\* the send_quote task a tick created, up to its send, which returns or raises
SendQuote ==
    /\ ready # <<>>
    /\ Head(ready).fn = "send_quote"
    /\ \E ok \in BOOLEAN :
          /\ (SendQuoteSends(target) = 0) => ok
          /\ ready' = AfterSend(ok, Tail(ready))
          /\ last' = [op |-> "send_quote", conn |-> target, stopped |-> _stop,
                      sends |-> SendQuoteSends(target), ok |-> ok]
    /\ UNCHANGED <<target, last_message, _timer, _stop, orphans, now, evReady,
                   stops, closed, gq, owo, gh>>

---------------------------------------------------------------------------
(* stop: flag, cancel, farewell, close. *)

\* stop up to its first await: the farewell's send when there is a handle,
\* close() when there is none
Stop ==
    /\ stops.calls < MaxStops
    /\ _stop' = TRUE
    /\ _timer' = Cancel(_timer)
    /\ LET n == FarewellSends(target) IN
          /\ stops' = [stops EXCEPT !.calls = @ + 1, !.farewell = @ + n]
          /\ closed' = (closed \/ n = 0)
          /\ last' = [op |-> "stop", nth |-> stops.calls + 1, conn |-> target,
                      farewells |-> n]
    /\ UNCHANGED <<target, last_message, orphans, ready, now, evReady, gq, owo, gh>>

\* the farewell's send returns and stop goes on to close(), or it raises and
\* stop ends there
StopFarewellDone ==
    /\ stops.farewell > 0
    /\ \E ok \in BOOLEAN :
          /\ stops' = [stops EXCEPT !.farewell = @ - 1,
                                    !.raised = IF ok THEN @ ELSE @ + 1]
          /\ closed' = (closed \/ ok)
          /\ last' = [op |-> "farewell", ok |-> ok]
    /\ UNCHANGED <<target, last_message, _timer, _stop, orphans, ready, now,
                   evReady, gq, owo, gh>>

Next ==
    \/ Advance
    \/ EventReady
    \/ EventReadyJoined
    \/ EventReadyAnnounced
    \/ EventMessageOf(SchedMessages)
    \/ QueueQuote
    \/ TimerFire
    \/ SendQuote
    \/ Stop
    \/ StopFarewellDone

Spec == Init /\ [][Next]_vars

---------------------------------------------------------------------------
(* The bot while stop() is never called.  The loop runs every task that is *)
(* ready and fires every timer that is due, and its clock goes on.         *)

NextLive ==
    \/ Advance
    \/ EventReady
    \/ EventReadyJoined
    \/ EventReadyAnnounced
    \/ EventMessageOf(SchedMessages)
    \/ QueueQuote
    \/ TimerFire
    \/ SendQuote

SpecLive ==
    /\ Init
    /\ [][NextLive]_vars
    /\ WF_vars(Advance)
    /\ WF_vars(TimerFire)
    /\ WF_vars(QueueQuote)
    /\ WF_vars(SendQuote)

---------------------------------------------------------------------------
(* queue_quote on every combination of its inputs: the fields it reads     *)
(* (_stop, target, last_message) and the clock.                            *)

InitClassify ==
    /\ target \in BOOLEAN
    /\ _stop \in BOOLEAN
    /\ now \in 0..MaxNow
    /\ last_message \in 0..IntTime(now)
    /\ _timer = NoTimer
    /\ orphans = EmptyBag
    /\ ready = <<ReadyTask("timer")>>
    /\ evReady = NoneReady
    /\ stops = NoStops
    /\ closed = FALSE
    /\ gq = GqIdle
    /\ owo = OwoIdle
    /\ gh = GhIdle
    /\ last = [op |-> "init"]

NextClassify == QueueQuote \/ SendQuote

SpecClassify == InitClassify /\ [][NextClassify]_vars

---------------------------------------------------------------------------
(* event_message on every message, with and without a handle, at every     *)
(* clock reading.                                                          *)

InitMessages ==
    /\ target \in BOOLEAN
    /\ _stop \in BOOLEAN
    /\ now \in 0..MaxNow
    /\ last_message \in 0..IntTime(now)
    /\ _timer \in {NoTimer, IF _stop THEN Cancel(Armed(now + Res))
                                    ELSE Armed(now + Res)}
    /\ orphans = EmptyBag
    /\ ready = <<>>
    /\ evReady = NoneReady
    /\ stops = NoStops
    /\ closed = FALSE
    /\ gq = GqIdle
    /\ owo = OwoIdle
    /\ gh = GhIdle
    /\ last = [op |-> "init"]

EventMessage == EventMessageOf(Messages)

NextMessages == EventMessage

SpecMessages == InitMessages /\ [][NextMessages]_vars

---------------------------------------------------------------------------
(* get_quote, one loop iteration at a time.  The quote source may return a *)
(* statement of any length; a statement is known by its length.            *)

InitGetQuote ==
    /\ target = FALSE
    /\ _stop = FALSE
    /\ now = 0
    /\ last_message = 0
    /\ _timer = NoTimer
    /\ orphans = EmptyBag
    /\ ready = <<>>
    /\ evReady = NoneReady
    /\ stops = NoStops
    /\ closed = FALSE
    /\ owo = OwoIdle
    /\ gh = GhIdle
    /\ \E min_length \in 0..MaxLen + 1, max_length \in 0..MaxLen + 1 :
          gq = [pc |-> "loop", min |-> min_length, max |-> max_length,
                calls |-> 0, rejected |-> {}, result |-> NoResult]
    /\ last = [op |-> "init"]

GetQuoteStep ==
    /\ gq.pc = "loop"
    /\ IF gq.calls < MaxAttempts
       THEN \E wisdom \in 0..MaxLen :
               IF Qualifies(wisdom, gq.min, gq.max)
               THEN gq' = [gq EXCEPT !.pc = "returned", !.calls = @ + 1,
                                     !.result = [kind |-> "statement", len |-> wisdom]]
               ELSE gq' = [gq EXCEPT !.calls = @ + 1,
                                     !.rejected = @ \cup {wisdom}]
       ELSE gq' = [gq EXCEPT !.pc = "returned",
                             !.result = [kind |-> "fallback", text |-> Fallback]]
    /\ last' = [op |-> "get_quote"]
    /\ UNCHANGED <<target, last_message, _timer, _stop, orphans, ready, now,
                   evReady, stops, closed, owo, gh>>

NextGetQuote == GetQuoteStep

SpecGetQuote == InitGetQuote /\ [][NextGetQuote]_vars

----------------------------------------------------------------------------
(* owo_magic.  A string is a sequence of characters. *)

MaxStr == 4

OwoAlphabet == {"o", "v", "e", "r", "l", "R", "L", "w"}

OwoStrings == UNION { [1..n -> OwoAlphabet] : n \in 0..MaxStr }

\* str.replace(old, new): the occurrences of old, leftmost first and not
\* overlapping, become new
RECURSIVE Replace(_, _, _)
Replace(s, old, new) ==
    IF Len(s) < Len(old)
    THEN s
    ELSE IF SubSeq(s, 1, Len(old)) = old
         THEN new \o Replace(SubSeq(s, Len(old) + 1, Len(s)), old, new)
         ELSE <<Head(s)>> \o Replace(Tail(s), old, new)

owo_magic_keeps_L(non_owo_string) ==
    Replace(Replace(Replace(Replace(non_owo_string,
        <<"o","v","e">>, <<"w","u","w">>),
        <<"R">>, <<"W">>),
        <<"r">>, <<"w">>),
        <<"l">>, <<"w">>)

owo_magic(non_owo_string) ==
    Replace(Replace(Replace(Replace(Replace(non_owo_string,
        <<"o","v","e">>, <<"w","u","w">>),
        <<"R">>, <<"W">>),
        <<"r">>, <<"w">>),
        <<"L">>, <<"W">>),
        <<"l">>, <<"w">>)

InitOwo ==
    /\ target = FALSE
    /\ _stop = FALSE
    /\ now = 0
    /\ last_message = 0
    /\ _timer = NoTimer
    /\ orphans = EmptyBag
    /\ ready = <<>>
    /\ evReady = NoneReady
    /\ stops = NoStops
    /\ closed = FALSE
    /\ gq = GqIdle
    /\ gh = GhIdle
    /\ \E non_owo_string \in OwoStrings :
          owo = [pc |-> "called", arg |-> non_owo_string, result |-> <<>>]
    /\ last = [op |-> "init"]

OwoMagic ==
    /\ owo.pc = "called"
    /\ owo' = [owo EXCEPT !.pc = "returned", !.result = owo_magic(owo.arg)]
    /\ last' = [op |-> "owo_magic"]
    /\ UNCHANGED <<target, last_message, _timer, _stop, orphans, ready, now,
                   evReady, stops, closed, gq, gh>>

NextOwo == OwoMagic

SpecOwo == InitOwo /\ [][NextOwo]_vars

----------------------------------------------------------------------------
(* guess_handler.  The dict guesses is the sequence of its items in the    *)
(* order of insertion, which is the order Python iterates it in.  heard    *)
(* records, for each name, the values of its first and of its latest       *)
(* accept_guess call.                                                       *)

MaxVal == 2

\* name in self.guesses
HasGuess(guesses, name) == \E i \in 1..Len(guesses) : guesses[i].name = name

\* self.guesses[name]
GuessOf(guesses, name) ==
    guesses[CHOOSE i \in 1..Len(guesses) : guesses[i].name = name].value

\* self.guesses[name] = value
SetGuess(guesses, name, value) ==
    IF HasGuess(guesses, name)
    THEN [i \in 1..Len(guesses) |->
             IF guesses[i].name = name
             THEN [name |-> name, value |-> value]
             ELSE guesses[i]]
    ELSE Append(guesses, [name |-> name, value |-> value])

accept_guess_overwrites(use_latest_reply, guesses, name, value) ==
    SetGuess(guesses, name, value)

accept_guess(use_latest_reply, guesses, name, value) ==
    IF use_latest_reply
    THEN SetGuess(guesses, name, value)
    ELSE IF ~HasGuess(guesses, name)
         THEN SetGuess(guesses, name, value)
         ELSE guesses

\* raw_values = list(self.guesses.values()); raw_values.sort()
RawValues(guesses) ==
    SortSeq([i \in 1..Len(guesses) |-> guesses[i].value], LAMBDA a, b : a < b)

\* the for loop over raw_values[1:]: the value before the first one above
\* value, and raw_values[0] when the loop ends without a break
RECURSIVE ScanValues(_, _, _, _)
ScanValues(rest, last_i, value, result_values) ==
    IF rest = <<>>
    THEN result_values
    ELSE IF value < Head(rest)
         THEN last_i
         ELSE ScanValues(Tail(rest), Head(rest), value, result_values)

Abs(n) == IF n < 0 THEN -n ELSE n

\* get_score on a non-empty dict
get_score(guesses, value, closest_without_going_over) ==
    LET raw_values == RawValues(guesses)
        result_values ==
            IF closest_without_going_over
            THEN {ScanValues(Tail(raw_values), raw_values[1], value, raw_values[1])}
            ELSE LET diffs == [i \in 1..Len(raw_values) |-> Abs(raw_values[i] - value)]
                     min_diff == CHOOSE d \in {diffs[i] : i \in 1..Len(diffs)} :
                                    \A i \in 1..Len(diffs) : d <= diffs[i]
                 IN { raw_values[i] : i \in {j \in 1..Len(diffs) : diffs[j] = min_diff} }
        hits == SelectSeq(guesses, LAMBDA g : g.value \in result_values)
    IN [names |-> [i \in 1..Len(hits) |-> hits[i].name], values |-> result_values]

num_replies(guesses) == Len(guesses)

InitGuess ==
    /\ target = FALSE
    /\ _stop = FALSE
    /\ now = 0
    /\ last_message = 0
    /\ _timer = NoTimer
    /\ orphans = EmptyBag
    /\ ready = <<>>
    /\ evReady = NoneReady
    /\ stops = NoStops
    /\ closed = FALSE
    /\ gq = GqIdle
    /\ owo = OwoIdle
    /\ \E use_latest_reply \in BOOLEAN :
          gh = [GhIdle EXCEPT !.pc = "made", !.use_latest_reply = use_latest_reply]
    /\ last = [op |-> "init"]

AcceptGuess ==
    /\ gh.pc = "made"
    /\ \E name \in Guessers, value \in 0..MaxVal :
          /\ gh' = [gh EXCEPT
                      !.guesses = accept_guess(gh.use_latest_reply, @, name, value),
                      !.heard[name] = IF @ = <<>> THEN <<value, value>>
                                                  ELSE <<@[1], value>>]
          /\ last' = [op |-> "accept_guess", name |-> name, value |-> value]
    /\ UNCHANGED <<target, last_message, _timer, _stop, orphans, ready, now,
                   evReady, stops, closed, gq, owo>>

GetScore ==
    /\ gh.pc = "made"
    /\ \E value \in 0..MaxVal, closest_without_going_over \in BOOLEAN :
          last' = [op |-> "get_score", value |-> value,
                   closest |-> closest_without_going_over,
                   raised |-> gh.guesses = <<>>,
                   result |-> IF gh.guesses = <<>>
                              THEN [names |-> <<>>, values |-> {}]
                              ELSE get_score(gh.guesses, value,
                                             closest_without_going_over)]
    /\ UNCHANGED <<target, last_message, _timer, _stop, orphans, ready, now,
                   evReady, stops, closed, gq, owo, gh>>

NumReplies ==
    /\ gh.pc = "made"
    /\ last' = [op |-> "num_replies", result |-> num_replies(gh.guesses)]
    /\ UNCHANGED <<target, last_message, _timer, _stop, orphans, ready, now,
                   evReady, stops, closed, gq, owo, gh>>

NextGuess == AcceptGuess \/ GetScore \/ NumReplies

SpecGuess == InitGuess /\ [][NextGuess]_vars

---------------------------------------------------------------------------
(* The claims. *)

InRange(n, range) == range[1] <= n /\ n <= range[2]

\* s has sub as a substring
Contains(s, sub) ==
    \E i \in 1..(Len(s) - Len(sub) + 1) : SubSeq(s, i, i + Len(sub) - 1) = sub

\* the spellings of the bot's name that differ from it in case only
NickSpellings == { <<"S","n">>, <<"s","n">>, <<"S","N">>, <<"s","N">> }

\* C1: a tick that runs while stopped is false picks its branch from
\* (connected, now, lastMessageAt) alone: without a handle the delay is in
\* startup_probe and no post is made; with a handle and now - lastMessageAt
\* strictly above the threshold the delay is in chat_active_probe and no post
\* is made; otherwise, equality included, the delay is in auto_quote_time and
\* exactly one post is made.  In each case the timer is armed for that delay.
C1_TickClassification ==
    (last.op = "queue_quote" /\ ~last.stopped) =>
        /\ last.armed /\ _timer = Armed(now + last.delay * Res)
        /\ ~target =>
              InRange(last.delay, startup_probe) /\ PostTasks = 0
        /\ (target /\ now - last_message * Res > chat_active_probe[1] * Res) =>
              InRange(last.delay, chat_active_probe) /\ PostTasks = 0
        /\ (target /\ now - last_message * Res <= chat_active_probe[1] * Res) =>
              InRange(last.delay, auto_quote_time) /\ PostTasks = 1

\* a tick at exactly the threshold posted
C1_Witness ==
    /\ last.op = "queue_quote" /\ ~last.stopped /\ target
    /\ now - last_message * Res = chat_active_probe[1] * Res
    /\ PostTasks = 1

\* C2, as stated: once stop() has run no timer fires and no tick that a timer
\* scheduled executes.
C2_NoTickAfterStop ==
    _stop => /\ last.op # "timer"
             /\ ~(last.op = "queue_quote" /\ last.by = "timer")

\* C2, amended: once stop() has run the timer Bot._timer refers to never
\* fires, and a tick that still runs returns at its stopped check: it arms no
\* timer and makes no post.
C2_StopSilencesTimer ==
    _stop => /\ _timer.st # "armed"
             /\ (last.op = "timer") => ~last.held
             /\ (last.op = "queue_quote") =>
                    last.branch = "stopped" /\ ~last.armed /\ last.posts = 0

\* the tick of a timer that had fired ran after stop()
C2_Witness == _stop /\ last.op = "queue_quote" /\ last.by = "timer"

\* C3: at most one timer is outstanding and at most one tick is logically
\* active (a tick task waiting to run, or the timer that will start it).
C3_OneTimerOneTick == ArmedTimers <= 1 /\ ArmedTimers + TickTasks <= 1

\* C4: once stopped is true it stays true, no timer is armed and no
\* scheduler-triggered post is started; a tick that finds stopped true leaves
\* Bot._timer as it was.
C4_StoppedIsTerminal ==
    [][_stop =>
          /\ _stop'
          /\ ArmedTimers' <= ArmedTimers
          /\ PostTasks' <= PostTasks
          /\ (last'.op = "queue_quote") =>
                 _timer' = _timer /\ ~last'.armed /\ last'.posts = 0]_vars

\* a tick found stopped true
C4_Witness ==
    last.op = "queue_quote" /\ last.stopped /\ ~last.armed /\ last.posts = 0

\* C5: a second stop() call sends no further farewell.
C5_StopIdempotent == (last.op = "stop" /\ last.nth > 1) => last.farewells = 0

\* C6: a stop() call sends exactly one farewell when a session is connected
\* at the call and none when no session is connected.
C6_FarewellIffConnected ==
    /\ stops.farewell <= stops.calls
    /\ (last.op = "stop") =>
          /\ target => last.farewells = 1 /\ stops.farewell >= 1
          /\ ~target => last.farewells = 0 /\ stops.farewell = 0 /\ closed

\* stop() with a session connected sent its one farewell
C6_Witness == last.op = "stop" /\ target /\ last.farewells = 1

\* C7: every stop() call that has ended has performed the close, also when
\* its farewell send failed: no stop() call is ended by the send's exception.
C7_CloseUnconditional ==
    /\ stops.raised = 0
    /\ (stops.calls > 0 /\ stops.farewell = 0) => closed

\* C8: get_quote asks the source at most 100 times; it returns the first
\* statement with min < length < max and asks no more; when none of 100
\* statements qualifies it returns the fallback after exactly 100 calls.
C8_GetQuote ==
    /\ gq.calls <= 100
    /\ gq.pc \in {"loop", "returned"}
    /\ \A len \in gq.rejected : ~(gq.min < len /\ len < gq.max)
    /\ (gq.pc = "loop") => gq.result = NoResult
    /\ (gq.pc = "loop" /\ gq.calls = 100) => ENABLED GetQuoteStep
    /\ (gq.pc = "returned") =>
          \/ /\ gq.result.kind = "statement"
             /\ gq.min < gq.result.len /\ gq.result.len < gq.max
             /\ gq.calls >= 1
          \/ /\ gq.result.kind = "fallback"
             /\ gq.result.text = "I don't like coffee."
             /\ gq.calls = 100

\* the fallback came back after 100 statements that were all too long
C8_Witness ==
    /\ gq.pc = "returned" /\ gq.result.kind = "fallback" /\ gq.calls = 100
    /\ gq.rejected # {} /\ \A len \in gq.rejected : len >= gq.max

\* C9, as stated: a non-moderator's message containing "!snerge" makes no
\* post; a moderator's "!snerge" or "!snerge foo" always makes exactly one.
C9_CommandAlwaysPosts ==
    (last.op = "event_message") =>
        /\ (last.msg.author.present /\ ~last.msg.author.is_mod
               /\ Contains(last.msg.content, SnergeCmd)) => last.posts = 0
        /\ (last.msg.author.present /\ last.msg.author.is_mod
               /\ last.msg.content \in {SnergeCmd, SnergeCmd \o <<" ","f","o","o">>})
              => last.posts = 1

\* C9, amended: a non-moderator's message containing "!snerge" makes no post;
\* a moderator's "!snerge" or "!snerge foo" makes exactly one post when a
\* session is connected, the author is not the bot itself and the channel
\* knows the author as a chatter, and makes none otherwise.
C9_CommandAuthorization ==
    (last.op = "event_message") =>
        /\ (last.msg.author.present /\ ~last.msg.author.is_mod
               /\ Contains(last.msg.content, SnergeCmd)) => last.posts = 0
        /\ (last.msg.author.present /\ last.msg.author.is_mod
               /\ last.msg.content \in {SnergeCmd, SnergeCmd \o <<" ","f","o","o">>})
              => IF target /\ last.chatter
                       /\ last.msg.author.name \notin NickSpellings
                 THEN last.posts = 1 /\ last.sends = 1
                 ELSE last.posts = 0 /\ last.sends = 0

\* a moderator's "!snerge foo" made its post
C9_Witness ==
    /\ last.op = "event_message" /\ last.posts = 1
    /\ last.msg.author.is_mod
    /\ last.msg.content = SnergeCmd \o <<" ","f","o","o">>

\* C10, as stated: a message without an author or from the bot itself
\* changes nothing; every other message sets lastMessageAt to the current
\* time.
C10_LastMessageIsNow ==
    (last.op = "event_message") =>
        IF ~last.msg.author.present \/ last.msg.author.name \in NickSpellings
        THEN last_message = last.lm0 /\ last.posts = 0
        ELSE last_message * Res = now

\* C10, amended: a message without an author or from the bot itself changes
\* nothing; every other message sets lastMessageAt to the current time cut
\* down to whole seconds, whether or not a session is connected, the author
\* is a moderator, or the content is a command.
C10_LastMessageIsWholeSeconds ==
    (last.op = "event_message") =>
        IF ~last.msg.author.present \/ last.msg.author.name \in NickSpellings
        THEN last_message = last.lm0 /\ last.posts = 0
        ELSE /\ last_message * Res <= now
             /\ now < (last_message + 1) * Res

\* a viewer's message between two whole seconds, with no session connected
C10_Witness ==
    /\ last.op = "event_message" /\ ~target
    /\ last.msg.author.present /\ last.msg.author.name \notin NickSpellings
    /\ now % Res # 0
    /\ last_message # last.lm0

\* C11: a send that fails inside a post is not retried and leaves the
\* scheduler as a send that succeeds leaves it: the step of a send_quote task
\* takes the task off the queue and changes nothing else, and the step of a
\* command's post changes only last_message, whether the send returns or
\* raises.
C11_FailedSendLeavesScheduler ==
    [][/\ (last'.op = "send_quote") =>
              /\ ready' = Tail(ready)
              /\ <<target, last_message, _timer, _stop, orphans, now, closed>>'
                    = <<target, last_message, _timer, _stop, orphans, now, closed>>
       /\ (last'.op = "event_message" /\ last'.posts = 1) =>
              /\ last_message' = now \div Res
              /\ <<target, ready, _timer, _stop, orphans, now, closed>>'
                    = <<target, ready, _timer, _stop, orphans, now, closed>>]_vars

\* the send of a tick's post raised while the tick's timer was armed
C11_Witness ==
    /\ last.op = "send_quote" /\ last.sends = 1 /\ ~last.ok
    /\ _timer.st = "armed" /\ ~_stop /\ PostTasks = 0

\* C12: a tick that runs while stopped is false arms exactly one timer before
\* it returns, and in the posting branch the post it triggered is still
\* waiting to run at that point; so while stop() is not called the scheduler
\* never stalls: once a tick has run there is always a timer armed or a tick
\* ready to run, a timer due within the clock's range fires, and a tick that
\* a timer scheduled runs.
C12_TickRearms ==
    /\ [][(last'.op = "queue_quote" /\ ~_stop) =>
              /\ _timer'.st = "armed"
              /\ ArmedTimers' = ArmedTimers + 1
              /\ last'.branch \in {"startup", "inactive", "quote"}
              /\ (last'.branch = "quote") => PostTasks' = PostTasks + 1
              /\ (last'.branch # "quote") => PostTasks' = PostTasks]_vars
    /\ []((~_stop /\ _timer.st # "none") => ArmedTimers + TickTasks >= 1)
    /\ (_timer.st = "armed" /\ _timer.due <= MaxNow) ~> (last.op = "timer")
    /\ (last.op = "timer") ~> (last.op = "queue_quote")

\* a posting tick has returned: its timer is armed, its post has not run yet
C12_Witness ==
    /\ last.op = "queue_quote" /\ last.branch = "quote"
    /\ _timer.st = "armed" /\ PostTasks = 1 /\ last.by = "timer"

\* C13: stop() cancels only the timer Bot._timer refers to: it takes no task
\* off the loop's queue, so a post a tick triggered before stop() is still
\* queued after it, and when that post runs with stopped set it makes its
\* send.  (A command's post reaches its send in the step that triggers it.)
C13_StopKeepsPosts ==
    /\ [][(last'.op = "stop") =>
              /\ ready' = ready
              /\ orphans' = orphans
              /\ target' = target
              /\ (_timer.st = "armed") => _timer'.st = "cancelled"
              /\ (_timer.st # "armed") => _timer' = _timer]_vars
    /\ []((last.op = "send_quote" /\ last.stopped) => target /\ last.sends = 1)

\* a post triggered before stop() made its send while stop() was waiting for
\* its farewell
C13_Witness ==
    /\ last.op = "send_quote" /\ last.stopped /\ last.sends = 1
    /\ stops.farewell > 0 /\ ~closed

\* the event_ready runs that have gone past their announcement's send
ReadyFinished == evReady.started - evReady.join - evReady.announce

\* C14: event_ready repeats the join until a handle is stored; it sends the
\* announcement only with a handle, and starts the first tick only when the
\* announcement's send has returned.  Before a handle is stored, and before
\* an announcement's send has returned, there is no tick and no timer.
C14_JoinAnnounceTick ==
    /\ (evReady.announce > 0 \/ ReadyFinished > 0) => target
    /\ (last.op = "joined" /\ ~target) => ~last.left /\ evReady.join > 0
    /\ (last.op = "joined" /\ target) => last.left /\ evReady.announce > 0
    /\ (last.op = "announced" /\ last.ok) =>
          TickTasks >= 1 /\ ready[Len(ready)] = [fn |-> "queue_quote", by |-> "event_ready"]
    /\ (~target \/ ReadyFinished = 0) =>
          ready = <<>> /\ _timer.st = "none" /\ ArmedTimers = 0

\* a join that gave no handle was repeated, and event_ready is still joining
C14_Witness ==
    /\ last.op = "joined" /\ ~target /\ evReady.join > 0
    /\ ready = <<>> /\ _timer.st = "none"

\* the contents that are a !snerge command, written out
CommandContents ==
    { SnergeCmd, SnergeCmd \o <<" ","f","o","o">>, <<"!","S","n","e","r","g","e">> }

\* C15: handling an inbound message, an authorized !snerge command included,
\* leaves the timer, the stop flag and the loop's tasks as they were; a
\* content that is neither "!snerge" nor begins with "!snerge " once
\* lowercased, "!snergefoo" from a moderator included, posts and sends nothing.
C15_CommandLeavesTimer ==
    /\ [][(last'.op = "event_message") =>
              /\ _timer' = _timer
              /\ _stop' = _stop
              /\ orphans' = orphans
              /\ ready' = ready
              /\ ArmedTimers' = ArmedTimers]_vars
    /\ []((last.op = "event_message" /\ last.msg.content \notin CommandContents) =>
              last.posts = 0 /\ last.sends = 0)
    /\ []((/\ last.op = "event_message"
           /\ last.msg.content \in CommandContents
           /\ last.msg.author.present
           /\ ~IsLoopback(last.msg)
           /\ last.msg.author.is_mod /\ last.chatter /\ last.conn) =>
              last.posts = 1 /\ last.sends = 1)

\* a moderator's "!snergefoo" was handled while a timer was armed
C15_Witness ==
    /\ last.op = "event_message"
    /\ last.msg.content = SnergeCmd \o <<"f","o","o">>
    /\ last.msg.author.present /\ last.msg.author.is_mod
    /\ last.chatter /\ last.conn
    /\ last.posts = 0
    /\ _timer.st = "armed"

\* the substitutions of owo_magic with the single letters first and
\* "ove" -> "wuw" last
SinglesFirst(s) ==
    Replace(Replace(Replace(Replace(Replace(s,
        <<"R">>, <<"W">>),
        <<"r">>, <<"w">>),
        <<"L">>, <<"W">>),
        <<"l">>, <<"w">>),
        <<"o","v","e">>, <<"w","u","w">>)

\* C16 as stated: for some input string, owo_magic gives a different result
\* than the single-letter substitutions applied before "ove" -> "wuw".
C16_OrderMatters ==
    owo.pc = "returned" =>
        \E s \in OwoStrings : owo_magic(s) # SinglesFirst(s)

\* C16: for every input string owo_magic gives the same result as the
\* single-letter substitutions applied before "ove" -> "wuw"; "Love" becomes
\* "Wwuw", and the result holds no r, l, R, L and no "ove".
C16_OrderIrrelevant ==
    owo.pc = "returned" =>
        /\ owo.result = SinglesFirst(owo.arg)
        /\ Len(owo.result) = Len(owo.arg)
        /\ \A i \in 1..Len(owo.result) : owo.result[i] \notin {"r", "l", "R", "L"}
        /\ ~Contains(owo.result, <<"o","v","e">>)
        /\ (owo.arg = <<"L","o","v","e">>) => owo.result = <<"W","w","u","w">>

\* owo_magic("Love") has returned "Wwuw"
C16_Witness ==
    /\ owo.pc = "returned"
    /\ owo.arg = <<"L","o","v","e">>
    /\ owo.result = <<"W","w","u","w">>

\* the guessed values that are not over value
NotOver(guesses, value) ==
    { guesses[i].value : i \in {j \in 1..Len(guesses) : guesses[j].value <= value} }

Largest(S) == CHOOSE m \in S : \A n \in S : n <= m

SeqToSet(s) == { s[i] : i \in 1..Len(s) }

\* C17: get_score(value, TRUE) on a non-empty dict selects the largest guessed
\* value that is <= value, whenever there is one, and returns exactly the
\* names whose stored guess is that value.
C17_ClosestNotOver ==
    (/\ last.op = "get_score" /\ last.closest /\ ~last.raised
     /\ NotOver(gh.guesses, last.value) # {}) =>
        /\ last.result.values = {Largest(NotOver(gh.guesses, last.value))}
        /\ SeqToSet(last.result.names) =
              { n \in Guessers : /\ HasGuess(gh.guesses, n)
                                 /\ GuessOf(gh.guesses, n) \in last.result.values }

\* the names that have guessed
HaveGuessed == { n \in Guessers : gh.heard[n] # <<>> }

\* C20: after any sequence of accept_guess calls, with use_latest_reply the
\* stored guess of a name is the value of its latest call, without it the
\* value of its first call, and a later call for that name changes nothing;
\* num_replies() is the number of distinct names that have guessed.
C20_StoredGuess ==
    /\ [](\A n \in Guessers :
             /\ HasGuess(gh.guesses, n) <=> n \in HaveGuessed
             /\ n \in HaveGuessed =>
                   GuessOf(gh.guesses, n) =
                      IF gh.use_latest_reply THEN gh.heard[n][2] ELSE gh.heard[n][1])
    /\ [](/\ num_replies(gh.guesses) = Cardinality(HaveGuessed)
          /\ last.op = "num_replies" => last.result = Cardinality(HaveGuessed))
    /\ [][(/\ last'.op = "accept_guess"
           /\ ~gh.use_latest_reply
           /\ HasGuess(gh.guesses, last'.name)) => gh'.guesses = gh.guesses]_vars

\* first replies are kept: ann guessed 0 and then 2, and two names replied
C20_Witness ==
    /\ ~gh.use_latest_reply
    /\ gh.heard["ann"] = <<0, 2>>
    /\ GuessOf(gh.guesses, "ann") = 0
    /\ last.op = "num_replies" /\ last.result = 2

GapAboveThreshold == now - last_message * Res > chat_active_probe[1] * Res

\* C19: last_message changes only when a message of another author is
\* handled, and never decreases.  Once the gap to it is above the
\* chat_active_probe threshold, every step that is not such a message leaves
\* the gap above it, no tick takes the quote branch and no tick creates a post.
C19_OwnPostsDoNotRefresh ==
    /\ [][(last_message' # last_message) =>
              /\ last'.op = "event_message"
              /\ last'.msg.author.present
              /\ last'.msg.author.name \notin NickSpellings]_vars
    /\ [][last_message' >= last_message]_vars
    /\ [][(GapAboveThreshold /\ last_message' = last_message) =>
              /\ GapAboveThreshold'
              /\ PostTasks' <= PostTasks
              /\ (last'.op = "queue_quote") =>
                    /\ last'.branch \in {"inactive", "stopped"}
                    /\ last'.posts = 0]_vars
    /\ [][(last'.op = "event_message" /\ last'.msg.author = Myself) =>
              last_message' = last_message]_vars

\* a tick started by the timer found the chat inactive and posted nothing
C19_Witness ==
    /\ last.op = "queue_quote"
    /\ last.by = "timer"
    /\ last.branch = "inactive"
    /\ GapAboveThreshold
    /\ PostTasks = 0

====
